---- MODULE Spec2Model ----
(***************************************************************************)
(* Model of withRateLimit (src/src/index.ts): a request handler wrapper    *)
(* that decides allow / reject from a local LRU cache of per-key           *)
(* {remaining, reset} states, falling back to a remote sliding-window      *)
(* counter (ratelimit.limit) on a miss or a stale entry.                   *)
(*                                                                         *)
(* Time is a discrete clock `now` (Date.now()).  One wrapper instance is   *)
(* modelled: its configuration is drawn in Init and never changes.  A      *)
(* request runs synchronously up to `await ratelimit.limit(key)`, which is *)
(* the only suspension point; the remote store handles a call atomically   *)
(* at some later step and the continuation runs at a still later step.     *)
(***************************************************************************)
EXTENDS Integers, Sequences, FiniteSets

\* ---------------------------------------------------------------- bounds
MaxTime == 2          \* the clock runs 0..MaxTime
MaxLimit == 3         \* requestsLimit is drawn from 1..MaxLimit
MaxInFlight == 3      \* requests suspended at the remote call at one time
timeframe == 2        \* options.timeframe, in clock ticks (z.number().positive())
MaxSize == 1          \* LRUCache maxSize (500 in the source) is scaled down to this

\* ------------------------------------------------------------ value sets
Keys == {"a", "b"}
Observed == "a"
\* What getKey(req) returns: a string (possibly empty), or, for an async
\* extractor, a promise that resolves to str.
KeyResults == [async : BOOLEAN, str : Keys \cup {""}]
PromiseId == "[object Promise]"
RemoteIds == Keys \cup {PromiseId}
Windows == 0 .. (MaxTime \div timeframe)
\* How the protected handler behaves when invoked: returns normally, throws
\* synchronously, or returns a promise that rejects.
HandlerModes == {"ok", "throw", "reject"}
Slots == 1 .. MaxInFlight

NoKey == [async |-> FALSE, str |-> ""]
NoRes == [success |-> FALSE, remaining |-> 0, reset |-> 0]
Idle == [phase |-> "idle", key |-> NoKey, res |-> NoRes, lookup |-> "none"]
NoState == [remaining |-> 0, reset |-> 0]
ObservedKey == [async |-> FALSE, str |-> Observed]
\* `provider: z.enum(['upstash', 'vercelKV'])`
Providers == {"upstash", "vercelKV"}
\* No remote allow for the observed key is cached.
NoRun == [r |-> -1, hits |-> 0]

VARIABLES
  now,            \* Date.now()
  requestsLimit,  \* options.requestsLimit
  disableLRU,     \* options.disableLRU
  maxSize,        \* the LRUCache's maxSize
  cache,          \* the LRUCache: entries, most recently used first
  remote,         \* the remote store: per identifier, the window and its count
  inflight,       \* per slot, a request suspended at `await ratelimit.limit`
  done,           \* history: the outcome of the request that completed last
  forwarded,      \* history: per window, handler invocations for Observed
  evictedIn,      \* history: windows whose entry for Observed was evicted
  run,            \* history: the last cached remote allow for Observed and
                  \* the local hits since
  recent,         \* history: the cached keys by last cache.get / cache.set,
                  \* most recent first, with the kind of that last use
  wrapper         \* withRateLimit's construction: provider, environment, result

vars == <<now, requestsLimit, disableLRU, maxSize, cache, remote, inflight, done,
          forwarded, evictedIn, run, recent, wrapper>>

\* ------------------------------------------------------------- the cache
\* Position of the entry stored under key k (0 when there is none).  A
\* promise used as a key is a fresh object: it equals no stored key.
RECURSIVE IndexFrom(_, _, _)
IndexFrom(c, k, i) ==
  IF i > Len(c) THEN 0
  ELSE IF c[i].key = k THEN i
  ELSE IndexFrom(c, k, i + 1)

IndexOf(c, k) == IF k.async THEN 0 ELSE IndexFrom(c, k, 1)

Remove(c, i) == SubSeq(c, 1, i - 1) \o SubSeq(c, i + 1, Len(c))

\* LRUCacheNode.isExpired: Date.now() - created > entryExpirationTimeInMS
IsExpired(e, t) == t > e.expiry

\* cache.get(key): null for an unknown key; an expired entry is removed and
\* null returned; otherwise the entry becomes the most recently used.
CacheGetValue(c, k, t) ==
  LET i == IndexOf(c, k) IN
  IF i = 0 \/ IsExpired(c[i], t) THEN NoState
  ELSE [remaining |-> c[i].remaining, reset |-> c[i].reset]

CacheGetFound(c, k, t) ==
  LET i == IndexOf(c, k) IN i # 0 /\ ~IsExpired(c[i], t)

CacheGetCache(c, k, t) ==
  LET i == IndexOf(c, k) IN
  IF i = 0 THEN c
  ELSE IF IsExpired(c[i], t) THEN Remove(c, i)
  ELSE <<c[i]>> \o Remove(c, i)

\* enforceSizeLimit: drop entries from the least recently used end.
EnforceSizeLimit(c) == IF Len(c) > maxSize THEN SubSeq(c, 1, maxSize) ELSE c

\* cache.set(key, value, {entryExpirationTimeInMS: ttl}) at time t.
CacheSet(c, k, remaining, reset, ttl, t) ==
  LET i == IndexOf(c, k)
      rest == IF i = 0 THEN c ELSE Remove(c, i)
      node == [key |-> k, remaining |-> remaining, reset |-> reset,
               expiry |-> t + ttl]
  IN EnforceSizeLimit(<<node>> \o rest)

\* The entries a cache.set drops for capacity.
Dropped(c, k) ==
  LET i == IndexOf(c, k)
      rest == IF i = 0 THEN c ELSE Remove(c, i)
  IN IF Len(rest) + 1 > maxSize
     THEN {rest[j] : j \in maxSize .. Len(rest)}
     ELSE {}

\* ------------------------------------------------------ the remote store
\* The store is an external service, seen only through ratelimit.limit: per
\* identifier it counts the units consumed in the current window of
\* `timeframe` ticks, allows a call while fewer than requestsLimit are
\* consumed, and answers {success, remaining, reset} with reset the end of
\* the window.
WindowOf(t) == t \div timeframe
ResetOf(t) == (WindowOf(t) + 1) * timeframe

\* String(key) as the store's identifier.
RemoteId(k) == IF k.async THEN PromiseId ELSE k.str

UsedNow(id, t) == IF remote[id].win = WindowOf(t) THEN remote[id].used ELSE 0

\* ratelimit.limit(key) at the store: one unit is consumed when the window
\* still has room; remaining is what is left after this call.
LimitResult(id, t) ==
  IF UsedNow(id, t) >= requestsLimit
  THEN [success |-> FALSE, remaining |-> 0, reset |-> ResetOf(t)]
  ELSE [success |-> TRUE, remaining |-> requestsLimit - (UsedNow(id, t) + 1),
        reset |-> ResetOf(t)]

LimitStore(id, t) ==
  [remote EXCEPT ![id] =
     [win |-> WindowOf(t),
      used |-> IF UsedNow(id, t) >= requestsLimit THEN UsedNow(id, t)
               ELSE UsedNow(id, t) + 1]]

\* ------------------------------------------------------------ the wrapper
IsFalsyNever(k) == FALSE

\* `if (!key)`: only the empty string is falsy; a promise is an object.
IsFalsy(k) == ~k.async /\ k.str = ""

IsUsableNoResetCheck(found, st, t) == found

\* `cachedState && cachedState.reset > Date.now()`
IsUsable(found, st, t) == found /\ st.reset > t

HasRemainingOrZero(st) == st.remaining >= 0

\* `cachedState.remaining > 0`
HasRemaining(st) == st.remaining > 0

LocalRemainingKept(st) == st.remaining

\* the remaining count re-stored on a local hit: cachedState.remaining - 1
LocalRemaining(st) == st.remaining - 1

RemoteRemainingPlus(res) == res.remaining + 1

\* the remaining count stored after a remote allow: remaining - 1
RemoteRemaining(res) == res.remaining - 1

\* `const ttl = reset - Date.now()`
Ttl(reset, t) == reset - t

ShouldCacheAlways(reset, t) == TRUE

\* `if (ttl > 0) cache.set(key, {remaining, reset}, {entryExpirationTimeInMS: ttl})`
ShouldCache(reset, t) == Ttl(reset, t) > 0

ReadCachePeek(c, k, t) == c

\* `const cachedState = cache.get(key)`: the cache after the lookup.
ReadCache(c, k, t) == CacheGetCache(c, k, t)

UpdateCacheUnbounded(c, remaining, reset, k, t) ==
  IF ShouldCache(reset, t)
  THEN <<[key |-> k, remaining |-> remaining, reset |-> reset, expiry |-> reset]>> \o c
  ELSE c

\* updateCacheAndProceed's effect on the cache.
UpdateCache(c, remaining, reset, k, t) ==
  IF ShouldCache(reset, t) THEN CacheSet(c, k, remaining, reset, Ttl(reset, t), t)
  ELSE c

\* What the wrapper answers once handler(req, res) has been called: a
\* synchronous throw inside the try block is caught (500), outside it
\* escapes; a rejected promise is returned un-awaited and escapes.
HandlerStatus(h, inTry) ==
  IF h = "ok" THEN "handler"
  ELSE IF h = "throw" /\ inTry THEN "500"
  ELSE "escaped"

\* The continuation after a remote answer: is a rejection answered 429?
RemoteRejects(res) == ~res.success

CaughtAsLimit == "429"

\* `catch (error) { return res.status(500)... }`
CaughtStatus == "500"

RejectUpdateZero(c, res, k, t) == UpdateCache(c, 0, res.reset, k, t)

\* `if (!success) return handleLimitExceeded(key, res)`: the cache is left
\* alone when the store rejects.
RejectUpdate(c, res, k, t) == c

RemoteCachesAlways(dis) == TRUE

\* Does the remote path write the cache?  `if (!disableLRU) return update...`
RemoteCaches(dis) == ~dis

\* Is the cache consulted at all?  `if (!disableLRU)`
UsesCache(dis) == ~dis

\* ---------------------------------------------------------- bookkeeping
\* status: the response ("400", "429", "500"), "handler" for the protected
\* handler's own response, "escaped" when an exception leaves the wrapper.
\* remote: "none" (no call made), "ok" (answered), "failed" (threw).
\* tick flips with every response, so that two equal responses in a row are
\* still two.
Outcome(k, status, invoked, rem) ==
  [tick |-> 1 - done.tick, key |-> k, status |-> status, invoked |-> invoked,
   remote |-> rem]

WindowOfReset(reset) == (reset \div timeframe) - 1

\* The history variables follow one key, Observed: the wrapper treats every
\* string key alike.
IsObserved(k) == ~k.async /\ k.str = Observed

Count(k, reset) ==
  IF IsObserved(k) THEN [forwarded EXCEPT ![WindowOfReset(reset)] = @ + 1]
  ELSE forwarded

\* Windows of the entries of the observed key among a set of dropped entries.
MarkEvicted(dropped) ==
  evictedIn \cup {WindowOfReset(e.reset) : e \in {d \in dropped : IsObserved(d.key)}}

DroppedBy(c, reset, k, t) == IF ShouldCache(reset, t) THEN Dropped(c, k) ELSE {}

\* The run of the observed key after a step that leaves the cache as c1:
\* r1 while the key's entry is cached, none once it is gone.
Track(c1, r1) == IF IndexOf(c1, ObservedKey) = 0 THEN NoRun ELSE r1

\* The recency history after key k was used by a cache.get or cache.set
\* that leaves the cache as c1: k moves to the front, keys without an entry
\* in c1 are forgotten.
RECURSIVE Prune(_, _)
Prune(rec, c1) ==
  IF rec = << >> THEN << >>
  ELSE IF \E i \in 1 .. Len(c1) : c1[i].key = Head(rec).key
       THEN <<Head(rec)>> \o Prune(Tail(rec), c1)
       ELSE Prune(Tail(rec), c1)

Used(rec, k, op, c1) ==
  Prune(<<[key |-> k, op |-> op]>> \o SelectSeq(rec, LAMBDA u : u.key # k), c1)

\* A remote allow with remaining = r was cached for k.
RunStart(k, r) == IF IsObserved(k) THEN [r |-> r, hits |-> 0] ELSE run

\* A local hit for k.
RunHit(k) == IF IsObserved(k) /\ run.r >= 0 THEN [run EXCEPT !.hits = @ + 1] ELSE run

Lookup(c, k, t) ==
  IF IndexOf(c, k) = 0 THEN "miss"
  ELSE IF IsUsable(CacheGetFound(c, k, t), CacheGetValue(c, k, t), t) THEN "hit"
  ELSE "stale"

\* ------------------------------------------------------------------ Init
Init ==
  /\ now = 0
  /\ requestsLimit \in 1 .. MaxLimit
  /\ disableLRU \in BOOLEAN
  /\ maxSize = MaxSize
  /\ cache = << >>
  /\ remote = [id \in RemoteIds |-> [win |-> 0, used |-> 0]]
  /\ inflight = [s \in Slots |-> Idle]
  /\ done = [tick |-> 0, key |-> NoKey, status |-> "none", invoked |-> FALSE,
             remote |-> "none"]
  /\ forwarded = [w \in Windows |-> 0]
  /\ evictedIn = {}
  /\ run = NoRun
  /\ recent = << >>
  /\ wrapper = [provider |-> "upstash", env |-> TRUE, result |-> "handler"]

\* --------------------------------------------------------------- actions
\* The clock advances.
Tick ==
  /\ now < MaxTime
  /\ now' = now + 1
  /\ UNCHANGED <<requestsLimit, disableLRU, maxSize, cache, remote, inflight, done,
                 forwarded, evictedIn, run, recent, wrapper>>

\* `if (!key) return res.status(400)...`
RejectNoKey(k) ==
  /\ IsFalsy(k)
  /\ done' = Outcome(k, "400", FALSE, "none")
  /\ UNCHANGED <<now, requestsLimit, disableLRU, maxSize, cache, remote, inflight,
                 forwarded, evictedIn, run, recent, wrapper>>

\* A usable cached state with remaining > 0: re-store it decremented and call
\* the handler.
LocalHit(k, h) ==
  LET st == CacheGetValue(cache, k, now)
      c1 == ReadCache(cache, k, now)
  IN
  /\ ~IsFalsy(k)
  /\ UsesCache(disableLRU)
  /\ IsUsable(CacheGetFound(cache, k, now), st, now)
  /\ HasRemaining(st)
  /\ cache' = UpdateCache(c1, LocalRemaining(st), st.reset, k, now)
  /\ evictedIn' = MarkEvicted(DroppedBy(c1, st.reset, k, now))
  /\ forwarded' = Count(k, st.reset)
  /\ run' = Track(cache', RunHit(k))
  /\ recent' = Used(recent, k, "set", cache')
  /\ done' = Outcome(k, HandlerStatus(h, FALSE), TRUE, "none")
  /\ UNCHANGED <<now, requestsLimit, disableLRU, maxSize, remote, inflight, wrapper>>

\* A usable cached state without remaining: 429, nothing else.
LocalReject(k) ==
  LET st == CacheGetValue(cache, k, now) IN
  /\ ~IsFalsy(k)
  /\ UsesCache(disableLRU)
  /\ IsUsable(CacheGetFound(cache, k, now), st, now)
  /\ ~HasRemaining(st)
  /\ cache' = ReadCache(cache, k, now)
  /\ recent' = Used(recent, k, "get", cache')
  /\ done' = Outcome(k, "429", FALSE, "none")
  /\ UNCHANGED <<now, requestsLimit, disableLRU, maxSize, remote, inflight, forwarded,
                 evictedIn, run, wrapper>>

\* Cache disabled, miss or stale entry: the request suspends at
\* `await ratelimit.limit(key)`.
CallRemote(s, k) ==
  /\ ~IsFalsy(k)
  /\ inflight[s].phase = "idle"
  /\ \/ ~UsesCache(disableLRU)
     \/ ~IsUsable(CacheGetFound(cache, k, now), CacheGetValue(cache, k, now), now)
  /\ cache' = IF UsesCache(disableLRU) THEN ReadCache(cache, k, now) ELSE cache
  /\ inflight' = [inflight EXCEPT ![s] =
       [phase |-> "called", key |-> k, res |-> NoRes,
        lookup |-> IF UsesCache(disableLRU) THEN Lookup(cache, k, now) ELSE "none"]]
  /\ run' = Track(cache', run)
  /\ recent' = IF UsesCache(disableLRU) THEN Used(recent, k, "get", cache') ELSE recent
  /\ UNCHANGED <<now, requestsLimit, disableLRU, maxSize, remote, done, forwarded,
                 evictedIn, wrapper>>

\* The remote store handles the call of slot s: atomically, at its own time.
RemoteLimit(s) ==
  LET id == RemoteId(inflight[s].key) IN
  /\ inflight[s].phase = "called"
  /\ remote' = LimitStore(id, now)
  /\ inflight' = [inflight EXCEPT ![s].phase = "answered",
                                  ![s].res = LimitResult(id, now)]
  /\ UNCHANGED <<now, requestsLimit, disableLRU, maxSize, cache, done, forwarded,
                 evictedIn, run, recent, wrapper>>

\* `ratelimit.limit(key)` or `pending` rejects (before or after the store
\* counted the call): `catch (error) { return res.status(500)... }`
RemoteThrows(s) ==
  /\ inflight[s].phase \in {"called", "answered"}
  /\ inflight' = [inflight EXCEPT ![s] = Idle]
  /\ done' = Outcome(inflight[s].key, CaughtStatus, FALSE, "failed")
  /\ UNCHANGED <<now, requestsLimit, disableLRU, maxSize, cache, remote, forwarded,
                 evictedIn, run, recent, wrapper>>

\* The remote answer arrives with success = false: 429, no cache write.
DeliverReject(s) ==
  LET k == inflight[s].key
      res == inflight[s].res
  IN
  /\ inflight[s].phase = "answered"
  /\ RemoteRejects(res)
  /\ inflight' = [inflight EXCEPT ![s] = Idle]
  /\ cache' = RejectUpdate(cache, res, k, now)
  /\ recent' = IF cache' = cache THEN recent ELSE Used(recent, k, "set", cache')
  /\ done' = Outcome(k, "429", FALSE, "ok")
  /\ UNCHANGED <<now, requestsLimit, disableLRU, maxSize, remote, forwarded, evictedIn,
                 run, wrapper>>

\* The remote answer arrives with success = true: store remaining - 1 (cache
\* enabled) and call the handler.
DeliverAllow(s, h) ==
  LET k == inflight[s].key
      res == inflight[s].res
      writes == RemoteCaches(disableLRU)
  IN
  /\ inflight[s].phase = "answered"
  /\ ~RemoteRejects(res)
  /\ inflight' = [inflight EXCEPT ![s] = Idle]
  /\ cache' = IF writes
              THEN UpdateCache(cache, RemoteRemaining(res), res.reset, k, now)
              ELSE cache
  /\ evictedIn' = IF writes THEN MarkEvicted(DroppedBy(cache, res.reset, k, now))
                  ELSE evictedIn
  /\ forwarded' = Count(k, res.reset)
  /\ run' = Track(cache', IF writes /\ ShouldCache(res.reset, now)
                          THEN RunStart(k, res.remaining) ELSE run)
  /\ recent' = IF writes /\ ShouldCache(res.reset, now)
               THEN Used(recent, k, "set", cache') ELSE recent
  /\ done' = Outcome(k, HandlerStatus(h, TRUE), TRUE, "ok")
  /\ UNCHANGED <<now, requestsLimit, disableLRU, maxSize, remote, wrapper>>

\* ------------------------------------------------------- specifications
\* What getKey returns for a synchronous extractor.
SyncKeys == {k \in KeyResults : ~k.async}

Quiet == \A s \in Slots : inflight[s].phase = "idle"

\* Requests are handled strictly one at a time: a request arrives only when
\* no other is suspended.  The key extractor is synchronous and the handler
\* returns normally.
Next ==
  \/ Tick
  \/ \E k \in SyncKeys : Quiet /\ RejectNoKey(k)
  \/ \E k \in SyncKeys : Quiet /\ LocalHit(k, "ok")
  \/ \E k \in SyncKeys : Quiet /\ LocalReject(k)
  \/ \E k \in SyncKeys : Quiet /\ CallRemote(1, k)
  \/ RemoteLimit(1)
  \/ RemoteThrows(1)
  \/ DeliverReject(1)
  \/ DeliverAllow(1, "ok")

Spec == Init /\ [][Next]_vars

\* The key extractor may be asynchronous: getKey(req) returns a string, or
\* a promise that resolves to the empty string or to a key.
MixedKeys ==
  {[async |-> FALSE, str |-> Observed], [async |-> TRUE, str |-> Observed],
   [async |-> TRUE, str |-> ""], NoKey}

NextAsync ==
  \/ Tick
  \/ \E k \in MixedKeys : Quiet /\ RejectNoKey(k)
  \/ \E k \in MixedKeys : Quiet /\ LocalHit(k, "ok")
  \/ \E k \in MixedKeys : Quiet /\ LocalReject(k)
  \/ \E k \in MixedKeys : Quiet /\ CallRemote(1, k)
  \/ RemoteLimit(1)
  \/ RemoteThrows(1)
  \/ DeliverReject(1)
  \/ DeliverAllow(1, "ok")

SpecAsync == Init /\ [][NextAsync]_vars

\* The cache under pressure: one key more than the cache can hold, the
\* cache enabled, requests one at a time, the store reachable.  The keys are
\* taken from "b" on: the histories of the observed key stay at rest.
\* requestsLimit is 3, the smallest limit under which a cached state is
\* both allowed from (remaining 1) and rejected from (remaining 0, -1).
KeyPool == <<"a", "b", "c", "d", "e", "f">>
LruSize == MaxSize + 1
LruKeys == {KeyPool[i] : i \in 2 .. (LruSize + 2)}
LruSyncKeys == {[async |-> FALSE, str |-> x] : x \in LruKeys}

InitLRU ==
  /\ now = 0
  /\ requestsLimit = 3
  /\ disableLRU = FALSE
  /\ maxSize = LruSize
  /\ cache = << >>
  /\ remote = [id \in LruKeys |-> [win |-> 0, used |-> 0]]
  /\ inflight = [s \in Slots |-> Idle]
  /\ done = [tick |-> 0, key |-> NoKey, status |-> "none", invoked |-> FALSE,
             remote |-> "none"]
  /\ forwarded = [w \in Windows |-> 0]
  /\ evictedIn = {}
  /\ run = NoRun
  /\ recent = << >>
  /\ wrapper = [provider |-> "upstash", env |-> TRUE, result |-> "handler"]

NextLRU ==
  \/ Tick
  \/ \E k \in LruSyncKeys : Quiet /\ LocalHit(k, "ok")
  \/ \E k \in LruSyncKeys : Quiet /\ LocalReject(k)
  \/ \E k \in LruSyncKeys : Quiet /\ CallRemote(1, k)
  \/ RemoteLimit(1)
  \/ DeliverReject(1)
  \/ DeliverAllow(1, "ok")

SpecLRU == InitLRU /\ [][NextLRU]_vars

\* Construction: withRateLimit(handler, getKey, options) runs with some
\* provider, with or without that provider's credentials in process.env.
\* Only the upstash branch looks at the environment (`if (!UPSTASH_URL ||
\* !UPSTASH_TOKEN) throw`); the vercelKV branch takes the `kv` client as is.
Construct(provider, env) ==
  IF provider = "upstash" /\ ~env THEN "error" ELSE "handler"

WithRateLimit ==
  /\ wrapper.result = "pending"
  /\ wrapper' = [wrapper EXCEPT !.result = Construct(wrapper.provider, wrapper.env)]
  /\ UNCHANGED <<now, requestsLimit, disableLRU, maxSize, cache, remote, inflight, done,
                 forwarded, evictedIn, run, recent>>

\* withRateLimit returned a handler: requests can be served.
Built == wrapper.result = "handler"

\* The client has what it needs to reach the store; without credentials
\* every ratelimit.limit call fails.
StoreReachable == wrapper.env

InitConstruct ==
  /\ now = 0
  /\ requestsLimit = MaxLimit
  /\ disableLRU \in BOOLEAN
  /\ maxSize = MaxSize
  /\ cache = << >>
  /\ remote = [id \in RemoteIds |-> [win |-> 0, used |-> 0]]
  /\ inflight = [s \in Slots |-> Idle]
  /\ done = [tick |-> 0, key |-> NoKey, status |-> "none", invoked |-> FALSE,
             remote |-> "none"]
  /\ forwarded = [w \in Windows |-> 0]
  /\ evictedIn = {}
  /\ run = NoRun
  /\ recent = << >>
  /\ wrapper \in [provider : Providers, env : BOOLEAN, result : {"pending"}]

NextConstruct ==
  \/ WithRateLimit
  \/ Tick
  \/ \E k \in SyncKeys : Built /\ Quiet /\ RejectNoKey(k)
  \/ \E k \in SyncKeys : Built /\ Quiet /\ LocalHit(k, "ok")
  \/ \E k \in SyncKeys : Built /\ Quiet /\ LocalReject(k)
  \/ \E k \in SyncKeys : Built /\ Quiet /\ CallRemote(1, k)
  \/ StoreReachable /\ RemoteLimit(1)
  \/ RemoteThrows(1)
  \/ DeliverReject(1)
  \/ DeliverAllow(1, "ok")

SpecConstruct == InitConstruct /\ [][NextConstruct]_vars

\* Concurrent requests for one key, the cache enabled: a request may arrive
\* while others are suspended at the remote call, the store handles the
\* calls in any order and the continuations run in any order.
InitConc ==
  /\ now = 0
  /\ requestsLimit \in 1 .. MaxLimit
  /\ disableLRU = FALSE
  /\ maxSize = MaxSize
  /\ cache = << >>
  /\ remote = [id \in RemoteIds |-> [win |-> 0, used |-> 0]]
  /\ inflight = [s \in Slots |-> Idle]
  /\ done = [tick |-> 0, key |-> NoKey, status |-> "none", invoked |-> FALSE,
             remote |-> "none"]
  /\ forwarded = [w \in Windows |-> 0]
  /\ evictedIn = {}
  /\ run = NoRun
  /\ recent = << >>
  /\ wrapper = [provider |-> "upstash", env |-> TRUE, result |-> "handler"]

NextConc ==
  \/ Tick
  \/ LocalHit(ObservedKey, "ok")
  \/ LocalReject(ObservedKey)
  \/ \E s \in Slots : CallRemote(s, ObservedKey)
  \/ \E s \in Slots : RemoteLimit(s)
  \/ \E s \in Slots : DeliverReject(s)
  \/ \E s \in Slots : DeliverAllow(s, "ok")

SpecConc == InitConc /\ [][NextConc]_vars

\* Failing collaborators: the key extractor may throw, and the protected
\* handler may throw synchronously or return a promise that rejects.
\* `const key = getKey(req)` stands outside the try block: the exception
\* leaves the wrapper before any key is known.
GetKeyThrows ==
  /\ done' = Outcome(NoKey, "escaped", FALSE, "none")
  /\ UNCHANGED <<now, requestsLimit, disableLRU, maxSize, cache, remote, inflight,
                 forwarded, evictedIn, run, recent, wrapper>>

NextFail ==
  \/ Tick
  \/ Quiet /\ GetKeyThrows
  \/ \E k \in SyncKeys : Quiet /\ RejectNoKey(k)
  \/ \E k \in SyncKeys, h \in HandlerModes : Quiet /\ LocalHit(k, h)
  \/ \E k \in SyncKeys : Quiet /\ LocalReject(k)
  \/ \E k \in SyncKeys : Quiet /\ CallRemote(1, k)
  \/ RemoteLimit(1)
  \/ RemoteThrows(1)
  \/ DeliverReject(1)
  \/ \E h \in HandlerModes : DeliverAllow(1, h)

SpecFail == Init /\ [][NextFail]_vars

\* ============================================================ properties
\* A request whose key extractor returned k arrives in this step: it is
\* answered at once, or it suspends at the remote call.
Arrived(k) ==
  \/ done'.tick # done.tick /\ done'.key = k /\ done'.remote = "none"
  \/ \E s \in Slots : /\ inflight[s].phase = "idle"
                      /\ inflight'[s].phase = "called"
                      /\ inflight'[s].key = k

\* The request suspends at the remote call in this step.
Calling(s) == inflight[s].phase = "idle" /\ inflight'[s].phase = "called"

\* The remote call of slot s fails in this step.
Failing(s) ==
  /\ inflight[s].phase \in {"called", "answered"}
  /\ inflight'[s].phase = "idle"
  /\ done'.remote = "failed"

\* The remote rejection of slot s is delivered in this step.
Rejecting(s) ==
  /\ inflight[s].phase = "answered"
  /\ ~inflight[s].res.success
  /\ inflight'[s].phase = "idle"
  /\ done'.remote = "ok"

EntriesFor(c, k) == {i \in 1 .. Len(c) : c[i].key = k}

\* The key has no entry the engine may trust at time t.
NoUsableEntry(c, k, t) == \A i \in EntriesFor(c, k) : c[i].reset <= t

IsLive(e, t) == e.reset > t

\* The entries whose window is still open, in recency order.
RECURSIVE LiveEntries(_, _)
LiveEntries(c, t) ==
  IF c = << >> THEN << >>
  ELSE IF IsLive(Head(c), t) THEN <<Head(c)>> \o LiveEntries(Tail(c), t)
  ELSE LiveEntries(Tail(c), t)

\* C1: for one key, cache enabled, requests one at a time, the key's entry
\* not evicted: the requests forwarded to the handler in one window of the
\* remote store never exceed requestsLimit.  A forwarded request belongs to
\* the window that admitted it: the window of the reset the store returned
\* for it, or of the cached reset it was allowed under.
C1_WindowCeiling ==
  ~disableLRU =>
    \A w \in Windows : w \notin evictedIn => forwarded[w] <= requestsLimit

C1_Witness ==
  /\ ~disableLRU
  /\ evictedIn = {}
  /\ requestsLimit = 3
  /\ forwarded[0] = 2
  /\ forwarded[1] >= 1

\* C2: cache enabled, the key's entry is present with reset in the future
\* and remaining = 0: the arriving request is answered 429, the handler is
\* not invoked and no remote call is made.
C2_LocalReject ==
  [][\A k \in KeyResults :
       ( /\ ~disableLRU
         /\ ~IsFalsy(k)
         /\ \E i \in EntriesFor(cache, k) :
              cache[i].reset > now /\ cache[i].remaining = 0
         /\ Arrived(k) )
       => /\ done'.status = "429"
          /\ ~done'.invoked
          /\ done'.remote = "none"
          /\ inflight' = inflight
          /\ remote' = remote
          /\ forwarded' = forwarded]_vars

C2_Witness ==
  /\ ~disableLRU
  /\ done.status = "429"
  /\ done.remote = "none"
  /\ \E i \in EntriesFor(cache, done.key) :
       cache[i].reset > now /\ cache[i].remaining = 0

\* C3: a request with a non-empty key that has no usable entry (never seen,
\* evicted, or reset passed) goes to the remote store before any outcome: it
\* is neither allowed nor rejected from the cache.
C3_RemoteBeforeOutcome ==
  [][\A k \in KeyResults :
       (~IsFalsy(k) /\ NoUsableEntry(cache, k, now) /\ Arrived(k))
       => /\ done' = done
          /\ forwarded' = forwarded
          /\ \E s \in Slots : Calling(s) /\ inflight'[s].key = k]_vars

C3_Witness ==
  /\ inflight[1].phase = "called"
  /\ inflight[1].lookup = "stale"
  /\ inflight[1].key = ObservedKey
  /\ forwarded[0] >= 1
  /\ now >= timeframe

\* C4 as stated: with disableLRU every request makes a remote call.
C4_EveryRequestRemote ==
  (disableLRU /\ done.status # "none") => done.remote \in {"ok", "failed"}

\* C4 amended: with disableLRU every request with a non-empty key suspends
\* at the remote call when it arrives, whatever happened before, every
\* response to such a request comes from a suspended request, and the cache
\* is never written.
C4_DisabledAlwaysRemote ==
  [][disableLRU =>
       /\ cache = << >> /\ cache' = << >>
       /\ \A k \in KeyResults :
            (~IsFalsy(k) /\ Arrived(k))
            => /\ done' = done
               /\ \E s \in Slots : Calling(s) /\ inflight'[s].key = k
       /\ (done'.tick # done.tick /\ ~IsFalsy(done'.key))
            => /\ done'.remote \in {"ok", "failed"}
               /\ \E s \in Slots : /\ inflight[s].phase \in {"called", "answered"}
                                    /\ inflight[s].key = done'.key
                                    /\ inflight'[s].phase = "idle"]_vars

C4_Witness ==
  /\ disableLRU
  /\ forwarded[0] >= 2
  /\ done.status = "429"
  /\ done.remote = "ok"

\* C5: a failed remote call is answered 500, the handler is not invoked and
\* the request leaves the cache as it found it: the failure step changes
\* nothing, and the lookup before the call adds no entry and keeps every
\* live entry in place.
C5_RemoteFailure ==
  [][\A s \in Slots :
       /\ Failing(s) =>
            /\ done'.status = "500"
            /\ ~done'.invoked
            /\ done'.key = inflight[s].key
            /\ cache' = cache
            /\ forwarded' = forwarded
       /\ Calling(s) =>
            /\ LiveEntries(cache', now) = LiveEntries(cache, now)
            /\ \A i \in 1 .. Len(cache') :
                 \E j \in 1 .. Len(cache) : cache'[i] = cache[j]]_vars

C5_Witness ==
  /\ ~disableLRU
  /\ done.status = "500"
  /\ done.remote = "failed"
  /\ done.key = ObservedKey
  /\ cache = << >>
  /\ forwarded = [w \in Windows |-> 0]

\* C6: an empty key is answered 400; handler, remote store and cache are
\* left alone.
C6_EmptyKey ==
  [][Arrived(NoKey)
       => /\ done'.status = "400"
          /\ ~done'.invoked
          /\ done'.remote = "none"
          /\ UNCHANGED <<cache, remote, inflight, forwarded>>]_vars

C6_Witness ==
  /\ done.status = "400"
  /\ done.key = NoKey
  /\ cache # << >>

\* C7: an asynchronous extractor that resolves to the empty string is
\* answered 400 without handler or remote call; one that resolves to a
\* non-empty string has that string used as the key.
C7_AsyncKey ==
  /\ \A s \in Slots :
       inflight[s].phase # "idle"
         => ~(inflight[s].key.async /\ inflight[s].key.str = "")
  /\ (done.status # "none" /\ done.key.async) =>
       IF done.key.str = ""
       THEN done.status = "400" /\ ~done.invoked /\ done.remote = "none"
       ELSE /\ \A i \in 1 .. Len(cache) : ~cache[i].key.async
            /\ remote[PromiseId].used = 0

\* C8: every cached state has remaining >= 0.
C8_RemainingNonNegative ==
  \A i \in 1 .. Len(cache) : cache[i].remaining >= 0

\* C9 as stated: when the store rejects with reset in the future and the
\* cache is enabled, a zero-remaining state is cached for the key.
C9_RejectCached ==
  [][\A s \in Slots :
       (Rejecting(s) /\ ~disableLRU /\ inflight[s].res.reset > now)
       => \E i \in EntriesFor(cache', inflight[s].key) :
            /\ cache'[i].remaining = 0
            /\ cache'[i].reset = inflight[s].res.reset]_vars

\* C9 amended: when the store rejects, the request is answered 429 and the
\* cache is not written, so the key still has no usable entry and the next
\* request for it consults the store again.
C9_RejectNotCached ==
  [][\A s \in Slots :
       Rejecting(s)
       => /\ done'.status = "429"
          /\ ~done'.invoked
          /\ cache' = cache
          /\ NoUsableEntry(cache', inflight[s].key, now)]_vars

C9_Witness ==
  /\ ~disableLRU
  /\ done.status = "429"
  /\ done.remote = "ok"
  /\ inflight[1].phase = "answered"
  /\ inflight[1].key = done.key
  /\ ~inflight[1].res.success
  /\ inflight[1].res.reset > now

\* The previous request was for the observed key and was allowed, in the
\* window that is open now, whose entry was not evicted: a run of N >= 1
\* allowed requests, and the (N+1)-th arrives.
AfterAllowedRun ==
  /\ ~disableLRU
  /\ WindowOf(now) \notin evictedIn
  /\ forwarded[WindowOf(now)] >= 1
  /\ forwarded[WindowOf(now)] <= requestsLimit
  /\ done.key = ObservedKey
  /\ done.status = "handler"
  /\ Arrived(ObservedKey)

\* C10 as stated: after any N <= requestsLimit allowed requests the next
\* one is rejected without a remote call.
C10_NextRejected ==
  [][AfterAllowedRun
       => /\ done'.status = "429"
          /\ done'.remote = "none"
          /\ inflight' = inflight]_vars

\* C10 amended: after N allowed requests the next one makes no remote call;
\* it is rejected once the run has used up the cached remaining count, at
\* the latest when N = requestsLimit, and is allowed from the cache before.
C10_RunEndsLocally ==
  [][AfterAllowedRun
       => /\ inflight' = inflight
          /\ remote' = remote
          /\ done'.remote = "none"
          /\ \E i \in EntriesFor(cache, ObservedKey) :
               IF cache[i].remaining > 0
               THEN /\ done'.status = "handler"
                    /\ forwarded'[WindowOf(now)] <= requestsLimit
               ELSE /\ done'.status = "429"
                    /\ forwarded' = forwarded
          /\ forwarded[WindowOf(now)] = requestsLimit
               => done'.status = "429"]_vars

C10_Witness ==
  /\ ~disableLRU
  /\ evictedIn = {}
  /\ requestsLimit = 3
  /\ forwarded[0] = 2
  /\ now < timeframe
  /\ done.key = ObservedKey
  /\ done.status = "429"
  /\ done.remote = "none"

\* The remote allow of slot s is delivered in this step.
Allowing(s) ==
  /\ inflight[s].phase = "answered"
  /\ inflight[s].res.success
  /\ inflight'[s].phase = "idle"
  /\ done'.remote = "ok"

\* A request for k is answered from the cache in this step by calling the
\* handler.
LocallyAllowed(k) ==
  /\ done'.tick # done.tick
  /\ done'.key = k
  /\ done'.remote = "none"
  /\ done'.invoked

\* A request for k is answered 429 from the cache in this step.
LocallyRejected(k) ==
  /\ done'.tick # done.tick
  /\ done'.key = k
  /\ done'.remote = "none"
  /\ done'.status = "429"

Max(a, b) == IF a >= b THEN a ELSE b

\* The cache's most recently used entry is k's, with these values.
HeadIs(c, k, remaining, reset) ==
  /\ c # << >>
  /\ c[1].key = k
  /\ c[1].remaining = remaining
  /\ c[1].reset = reset

\* C11 as stated: after a cached remote allow that reported remaining = r,
\* exactly r - 1 further requests are allowed locally before the local
\* rejection.
C11_ExactlyRMinusOne ==
  [][(LocallyRejected(ObservedKey) /\ run.r >= 0) => run.hits = run.r - 1]_vars

\* C11 amended: with the cache enabled, a remote allow reporting remaining =
\* r with reset in the future leaves {r - 1, reset} cached; a local hit needs
\* remaining > 0, re-stores remaining - 1 under the same reset and makes no
\* remote call; so Max(r - 1, 0) further requests are allowed locally (none
\* when r = 0, where -1 is cached) and the next one is rejected locally.
C11_LocalRun ==
  [][/\ \A s \in Slots :
          (Allowing(s) /\ ~disableLRU /\ inflight[s].res.reset > now)
          => HeadIs(cache', inflight[s].key, inflight[s].res.remaining - 1,
                    inflight[s].res.reset)
     /\ \A k \in KeyResults :
          LocallyAllowed(k)
          => /\ \E i \in EntriesFor(cache, k) :
                  /\ cache[i].remaining > 0
                  /\ HeadIs(cache', k, cache[i].remaining - 1, cache[i].reset)
             /\ remote' = remote
             /\ inflight' = inflight
     /\ run.r >= 0 => run.hits <= Max(run.r - 1, 0)
     /\ (LocallyRejected(ObservedKey) /\ run.r >= 0)
          => run.hits = Max(run.r - 1, 0)]_vars

\* r = 2 was reported and cached, one request was allowed locally, the next
\* was rejected locally.
C11_Witness ==
  /\ run = [r |-> 2, hits |-> 1]
  /\ done.key = ObservedKey
  /\ done.status = "429"
  /\ done.remote = "none"
  /\ evictedIn = {}

\* The entries of c1 that c does not hold: what a step inserted.
Inserted(c, c1) ==
  {c1[i] : i \in 1 .. Len(c1)} \ {c[j] : j \in 1 .. Len(c)}

\* C12: no entry is inserted whose reset is not strictly after the time of
\* insertion; every inserted entry expires at its reset; when a remote allow
\* is delivered with reset - now <= 0 the write is skipped and the handler is
\* still called.
C12_NoStaleInsert ==
  [][/\ \A e \in Inserted(cache, cache') : e.reset > now /\ e.expiry = e.reset
     /\ \A s \in Slots :
          (Allowing(s) /\ ~disableLRU /\ inflight[s].res.reset - now <= 0)
          => /\ cache' = cache
             /\ done'.invoked
             /\ done'.status = "handler"
             /\ done'.key = inflight[s].key]_vars

\* The observed key's first request was allowed by the store, delivered when
\* its window had closed, forwarded, and nothing was cached.
C12_Witness ==
  /\ ~disableLRU
  /\ now = timeframe
  /\ done.key = ObservedKey
  /\ done.status = "handler"
  /\ done.remote = "ok"
  /\ forwarded[0] = 1
  /\ forwarded[1] = 0
  /\ cache = << >>

KeysOf(c) == {c[i].key : i \in 1 .. Len(c)}

\* This step writes the cache for a key the cache did not hold.
WritesNewKey ==
  /\ cache' # << >>
  /\ cache'[1].key \notin KeysOf(cache)

\* This step's lookup finds the looked-up key's entry expired and drops it.
DropsExpired(k) ==
  /\ \E s \in Slots : Calling(s) /\ inflight'[s].key = k
  /\ \E i \in EntriesFor(cache, k) : IsExpired(cache[i], now)

\* C13: a write for a new key into a full cache evicts exactly the key whose
\* last use (cache.get or cache.set) is the oldest, never the key used last;
\* nothing else removes another key's entry.
C13_EvictsLRU ==
  [][LET gone == KeysOf(cache) \ KeysOf(cache') IN
     /\ (WritesNewKey /\ Len(cache) = maxSize)
          => /\ gone = {recent[Len(recent)].key}
             /\ Len(recent) = maxSize
             /\ Len(recent) >= 2 => recent[1].key \notin gone
     /\ (WritesNewKey /\ Len(cache) < maxSize) => gone = {}
     /\ \A k \in gone :
          \/ WritesNewKey /\ Len(cache) = maxSize
          \/ DropsExpired(k)]_vars

\* Key "b" was read last (a local rejection), then "d" was written into the
\* full cache of two: "c", cached earlier, went, and "b" stayed.
C13_Witness ==
  /\ now = 0
  /\ maxSize = 2
  /\ Len(cache) = 2
  /\ recent = <<[key |-> [async |-> FALSE, str |-> "d"], op |-> "set"],
                [key |-> [async |-> FALSE, str |-> "b"], op |-> "get"]>>
  /\ "c" \in DOMAIN remote
  /\ remote["c"].used >= 1
  /\ Quiet
  /\ done.key = [async |-> FALSE, str |-> "d"]
  /\ done.status = "handler"

\* C14: constructing the wrapper with a provider whose credentials are absent
\* fails, for either provider: no handler is returned.
C14_FailsAtConstruction ==
  (wrapper.result # "pending" /\ ~wrapper.env) => wrapper.result = "error"

\* C15: for any interleaving of concurrent requests for one key, the
\* requests forwarded to the handler in one window never exceed
\* requestsLimit.
C15_ConcurrentCeiling ==
  \A w \in Windows : forwarded[w] <= requestsLimit

\* C16: no exception escapes the wrapper: whatever fails, every request is
\* completed with a response (400, 429, 500 or the handler's own).
C16_NothingEscapes ==
  done.status \in {"none", "400", "429", "500", "handler"}

\* C17: cache enabled, requests one at a time over several keys: the
\* requests forwarded for one key in one window never exceed requestsLimit,
\* also when the key's entry is evicted in that window and the key is looked
\* up again at the store.
C17_CeilingUnderEviction ==
  ~disableLRU => \A w \in Windows : forwarded[w] <= requestsLimit

\* C18: after any sequence of requests over any number of keys the cache
\* holds at most its capacity of entries, and at most one entry per key.
C18_CacheBounded ==
  /\ Len(cache) <= maxSize
  /\ \A i, j \in 1 .. Len(cache) : cache[i].key = cache[j].key => i = j

\* The cache is full and has evicted: a key the store allowed, whose state
\* was cached (the clock has not moved and no request is suspended), has no
\* entry any more.
C18_Witness ==
  /\ Len(cache) = maxSize
  /\ now = 0
  /\ Quiet
  /\ \E id \in DOMAIN remote :
       /\ remote[id].used >= 1
       /\ \A i \in 1 .. Len(cache) : cache[i].key.str # id

\* What an entry says about its key's rate limit.
StateOf(e) == [key |-> e.key, remaining |-> e.remaining, reset |-> e.reset]

StatesIn(c) == {StateOf(c[i]) : i \in 1 .. Len(c)}

\* The key of the request that acts in this step, when one does.
ActsFor(k) ==
  \/ done'.tick # done.tick /\ done'.key = k
  \/ \E s \in Slots : Calling(s) /\ inflight'[s].key = k

C20_FiveHundredMeansRemoteFailed ==
  done.status = "500" => (done.remote = "failed" /\ ~done.invoked)
====
